---------------------------- MODULE Spec2Model ----------------------------
(***************************************************************************)
(* Model of src/src/Chat.tsx: the Chat component's sendMessage operation   *)
(* (request, streamed response decoding, conversation updates) and the UI  *)
(* triggers that invoke it.                                                *)
(*                                                                         *)
(* Text is a sequence of characters, each a one-character string.  The     *)
(* fixed JSON skeleton of a completion frame is written with one character *)
(* per fragment, so a frame keeps its structure and can be split by the    *)
(* transport at every fragment boundary:                                   *)
(*    "{"   stands for   {"choices":[{"delta":{                            *)
(*    "k"   stands for   "content":                                        *)
(*    "q"   stands for   the string quote                                  *)
(*    "}"   stands for   }}]}                                              *)
(*    "0"   stands for   a JSON literal that is not a string (null, 0)     *)
(*    "\\" "n"  is the JSON escape of a newline inside a string            *)
(***************************************************************************)
EXTENDS Integers, Sequences, FiniteSets, TLC

\* ------------------------------------------------------------- bounds
MaxSends == 2      \* invocations of sendMessage in one behaviour
MaxFrames == 2     \* frames of one response stream
MaxChunk == 2      \* characters of one transport chunk (or: all that is left)
MaxCalls == 2      \* sendMessage invocations in flight (programmatic calls)

\* ------------------------------------------------------------- text
NL == "\n"
WhiteSpace == {" ", "\r", "\n"}

\* String.prototype.trim, first the leading then the trailing white space
RECURSIVE TrimStart(_)
TrimStart(s) ==
  IF s # <<>> /\ Head(s) \in WhiteSpace THEN TrimStart(Tail(s)) ELSE s

RECURSIVE TrimEnd(_)
TrimEnd(s) ==
  IF s # <<>> /\ s[Len(s)] \in WhiteSpace
    THEN TrimEnd(SubSeq(s, 1, Len(s) - 1)) ELSE s

Trim(s) == TrimEnd(TrimStart(s))

\* buffer.indexOf('\n'), 0-based as in the source; -1 when there is none
IndexOf(s, c) ==
  IF \E i \in 1..Len(s) : s[i] = c
    THEN (CHOOSE i \in 1..Len(s) : s[i] = c /\ \A j \in 1..(i - 1) : s[j] # c) - 1
    ELSE -1

\* s.slice(from) and s.slice(0, to), 0-based
SliceFrom(s, from) == SubSeq(s, from + 1, Len(s))
SliceTo(s, to) == SubSeq(s, 1, to)

DataPrefix == <<"d", "a", "t", "a", ":">>
DoneSentinel == <<"[", "D", "O", "N", "E", "]">>

IsProperPrefix(s, p) == 0 < Len(s) /\ Len(s) < Len(p) /\ SubSeq(p, 1, Len(s)) = s

\* mutant: every non-empty line is taken for a data line
StartsWithAnything(s, p) == TRUE

\* line.startsWith('data:')
StartsWith(s, p) == Len(s) >= Len(p) /\ SubSeq(s, 1, Len(p)) = p

\* line.replace(/^data:\s*/, ''): a line without the prefix is left as it is
StripDataPrefix(line) ==
  IF Len(line) >= Len(DataPrefix) /\ SubSeq(line, 1, Len(DataPrefix)) = DataPrefix
    THEN TrimStart(SliceFrom(line, Len(DataPrefix)))
    ELSE line

\* ------------------------------------------------------------- JSON
\* The value read at parsed?.choices?.[0]?.delta?.content:
\*   [str |-> TRUE, text |-> t]   a string
\*   NotAString                   undefined, null or a number
NotAString == [str |-> FALSE, text |-> <<>>]
AString(t) == [str |-> TRUE, text |-> t]

\* the characters of a JSON string body, unescaped; Bad when it is no string body
Bad == <<"bad">>
RECURSIVE Unescape(_)
Unescape(s) ==
  IF s = <<>> THEN <<>>
  ELSE IF Head(s) = "\\"
    THEN IF Len(s) >= 2 /\ s[2] = "n"
           THEN LET r == Unescape(SliceFrom(s, 2))
                IN IF r = Bad THEN Bad ELSE <<NL>> \o r
           ELSE Bad
  ELSE IF Head(s) \in {"q", "{", "}", "k", NL, "\r"}
    THEN Bad
  ELSE LET r == Unescape(Tail(s))
       IN IF r = Bad THEN Bad ELSE <<Head(s)>> \o r

\* JSON.parse(jsonStr) followed by the optional-chained read of the delta
\* content: ok = FALSE when JSON.parse throws
ParseFail == [ok |-> FALSE, content |-> NotAString]
JSONParse(s) ==
  LET n == Len(s)
  IN IF s = <<"0">> \/ s = <<"{", "}">> \/ s = <<"{", "k", "0", "}">>
       THEN [ok |-> TRUE, content |-> NotAString]
     ELSE IF n >= 5 /\ SubSeq(s, 1, 3) = <<"{", "k", "q">>
                    /\ SubSeq(s, n - 1, n) = <<"q", "}">>
       THEN LET t == Unescape(SubSeq(s, 4, n - 2))
            IN IF t = Bad THEN ParseFail
                          ELSE [ok |-> TRUE, content |-> AString(t)]
     ELSE ParseFail


\* ------------------------------------------------------------- UTF-8
\* The response body is a byte sequence.  Every character of the model is one
\* byte, except "u", a two-byte character with the bytes "u1" "u2".
RECURSIVE UTF8Encode(_)
UTF8Encode(s) ==
  IF s = <<>> THEN <<>>
  ELSE (IF Head(s) = "u" THEN <<"u1", "u2">> ELSE <<Head(s)>>) \o UTF8Encode(Tail(s))

Replacement == "?"

\* decoder.decode(value, {stream: true}): carry holds the bytes of an
\* incomplete character left by the previous call
RECURSIVE DecodeFrom(_, _, _)
DecodeFrom(carry, bytes, out) ==
  IF bytes = <<>> THEN [text |-> out, carry |-> carry]
  ELSE LET b == Head(bytes)
       IN IF carry # <<>>
            THEN IF b = "u2"
                   THEN DecodeFrom(<<>>, Tail(bytes), Append(out, "u"))
                   ELSE DecodeFrom(<<>>, bytes, Append(out, Replacement))
          ELSE IF b = "u1" THEN DecodeFrom(<<"u1">>, Tail(bytes), out)
          ELSE IF b = "u2" THEN DecodeFrom(<<>>, Tail(bytes), Append(out, Replacement))
          ELSE DecodeFrom(<<>>, Tail(bytes), Append(out, b))

\* mutant: decode(value) without {stream: true} forgets the incomplete character
DecodeNoCarry(carry, bytes) == DecodeFrom(<<>>, bytes, <<>>)

Decode(carry, bytes) == DecodeFrom(carry, bytes, <<>>)

\* ------------------------------------------------------------- frames
\* What the endpoint writes: a frame is one line of the response body.
RECURSIVE Escape(_)
Escape(t) ==
  IF t = <<>> THEN <<>>
  ELSE (IF Head(t) = NL THEN <<"\\", "n">> ELSE <<Head(t)>>) \o Escape(Tail(t))

DeltaFrame(t) == [kind |-> "delta", text |-> t]
Frame(k) == [kind |-> k, text |-> <<>>]

FrameLine(f) ==
  CASE f.kind = "delta"     -> DataPrefix \o <<" ", "{", "k", "q">> \o Escape(f.text) \o <<"q", "}">>
    [] f.kind = "done"      -> DataPrefix \o <<" ">> \o DoneSentinel
    [] f.kind = "doneTight" -> DataPrefix \o DoneSentinel \o <<"\r">>
    [] f.kind = "malformed" -> DataPrefix \o <<" ", "{", "k", "q", "a">>
    [] f.kind = "nocontent" -> DataPrefix \o <<" ", "{", "}">>
    [] f.kind = "nonstring" -> DataPrefix \o <<" ", "{", "k", "0", "}">>
    [] f.kind = "emptystr"  -> DataPrefix \o <<" ", "{", "k", "q", "q", "}">>
    [] f.kind = "blank"     -> <<>>
    [] f.kind = "comment"   -> <<":", " ">> \o DoneSentinel
    [] f.kind = "bare"      -> DoneSentinel

\* the text of a stream of frames; the last line lacks its newline when the
\* stream is not terminated
RECURSIVE StreamText(_, _)
StreamText(frames, terminated) ==
  IF frames = <<>> THEN <<>>
  ELSE FrameLine(Head(frames))
         \o (IF Len(frames) > 1 \/ terminated THEN <<NL>> ELSE <<>>)
         \o StreamText(Tail(frames), terminated)

\* ------------------------------------------------------------- state
VARIABLES
  apiKey,     \* useState: the credential
  storage,    \* localStorage[STORAGE_KEY], "" when the key is not stored
  messages,   \* useState: the Conversation
  input,      \* useState: the text of the input box
  busy,       \* useState: the busy flag
  calls,      \* the invocations of sendMessage in flight, each with its locals
  invoked,    \* history: how many times sendMessage has been invoked
  requests,   \* history: how many requests fetch has issued
  last        \* history: how the invocation that returned last went

vars == <<apiKey, storage, messages, input, busy, calls, invoked, requests, last>>

DEFAULT_SYSTEM_PROMPT == <<"You are a helpful assistant.">>
ErrorLabel == <<"Oshibka zaprosa: ">>      \* the label of line 131, in Latin letters
NoContentText == <<"(no content)">>

Msg(r, c) == [role |-> r, content |-> c]

Keys == {"", "sk"}
Inputs == {<<>>, <<" ">>, <<" ", "h", NL>>}

\* the failures fetch, resp.text(), resp.json() and reader.read() reject with
Failure(n, m) == [name |-> n, message |-> m]
NetworkFailure == Failure("TypeError", <<"Failed to fetch">>)
ReadFailure == Failure("TypeError", <<"network error">>)
SyntaxFailure == Failure("SyntaxError", <<"Unexpected token">>)
HttpStatuses == {"429"}
ErrorBodies == {<<>>, <<"rate limited">>}

\* String(e) of an Error object
ErrorToString(e) ==
  IF e.message = <<>> THEN <<e.name>> ELSE <<e.name, ": ">> \o e.message

\* e?.message || String(e)
ErrorText(e) == IF e.message # <<>> THEN e.message ELSE ErrorToString(e)

\* mutant: the body text alone is the message
HttpErrorBodyOnly(status, errText) == Failure("Error", errText)

\* new Error(`HTTP ${resp.status}: ${errText}`)
HttpError(status, errText) == Failure("Error", <<"HTTP ", status, ": ">> \o errText)

\* ------------------------------------------------------------- updaters
\* messages.filter(m => m.role !== 'system')
visibleMessages == SelectSeq(messages, LAMBDA m : m.role # "system")

\* mutant: withUser is built from the messages shown
WithUserFromVisible(msgs, text) ==
  Append(SelectSeq(msgs, LAMBDA m : m.role # "system"), Msg("user", text))

\* [...messages, { role: 'user', content: text }]
WithUser(msgs, text) == Append(msgs, Msg("user", text))

\* mutant: the index of the last element of withUser
AssistantIndexOffByOne(withUser) == Len(withUser) - 1

\* const assistantIndex = withUser.length
AssistantIndex(withUser) == Len(withUser)

\* mutant: only the messages the list shows are sent
RequestWithoutSystem(withUser) == SelectSeq(withUser, LAMBDA m : m.role # "system")

\* withUser.map(m => ({ role: m.role, content: m.content })), the messages of
\* the request body
RequestMessages(withUser) ==
  [i \in DOMAIN withUser |-> [role |-> withUser[i].role, content |-> withUser[i].content]]

\* mutant: the input is not validated
RejectsKeyOnly(text, key) == key = ""

\* !text || !apiKey
Rejects(text, key) == text = <<>> \/ key = ""

\* prev => [...prev, { role: 'assistant', content: '' }]
AddPlaceholder(prev) == Append(prev, Msg("assistant", <<>>))

\* mutant: each delta becomes a message of its own
FoldDeltaAsNewMessage(prev, assistantIndex, delta) ==
  prev \o <<Msg("assistant", delta)>>

\* the updater of lines 111-118; assistantIndex is 0-based
FoldDelta(prev, assistantIndex, delta) ==
  IF assistantIndex + 1 \in DOMAIN prev /\ prev[assistantIndex + 1].role = "assistant"
    THEN [prev EXCEPT ![assistantIndex + 1].content = @ \o delta]
    ELSE prev

\* prev.map((m, i) => i === assistantIndex ? { ...m, content } : m)
SetContent(prev, assistantIndex, content) ==
  [i \in DOMAIN prev |->
     IF i - 1 = assistantIndex THEN [prev[i] EXCEPT !.content = content] ELSE prev[i]]

\* mutant: the error text is appended to what was streamed
CatchAppend(prev, assistantIndex, e) ==
  SetContent(prev, assistantIndex,
             prev[assistantIndex + 1].content \o ErrorLabel \o ErrorText(e))

\* mutant: the placeholder is removed on failure
CatchDropsPlaceholder(prev, assistantIndex, e) == SubSeq(prev, 1, assistantIndex)

\* the catch block
CatchUpdate(prev, assistantIndex, e) ==
  SetContent(prev, assistantIndex, ErrorLabel \o ErrorText(e))

\* data.choices?.[0]?.message?.content ?? '(no content)'; c.has is FALSE for
\* a content that is undefined or null
FallbackText(c) == IF c.has THEN c.text ELSE NoContentText
NoContent == [has |-> FALSE, text |-> <<>>]
FallbackContents ==
  {[has |-> TRUE, text |-> <<"a">>], [has |-> TRUE, text |-> <<>>], NoContent}

\* ------------------------------------------------------------- decoding
\* mutant: done is set and the loop goes on with the lines buffered
NoBreakAtDone == FALSE

\* the break of line 105
BreakAtDone == TRUE

\* jsonStr === '[DONE]'
IsDone(jsonStr) == jsonStr = DoneSentinel

\* mutant: whatever was parsed is folded
IsDeltaAlways(delta) == TRUE

\* typeof delta === 'string' && delta.length > 0
IsDelta(delta) == delta.str /\ Len(delta.text) > 0

\* mutant: the parse error leaves the loop
OnParseErrorThrow == "throw"

\* what the catch of lines 122-124 does with a frame JSON.parse rejects
OnParseError == "skip"

\* The inner loop of lines 95-126 on the buffer, applying its updaters to
\* msgs: the buffer left, whether [DONE] was met, whether an exception left
\* the loop, the messages, and how many deltas were folded.
RECURSIVE ProcessLines(_, _, _, _)
ProcessLines(buffer, msgs, assistantIndex, folded) ==
  LET lineBreakIdx == IndexOf(buffer, NL)
  IN IF lineBreakIdx = -1
       THEN [buffer |-> buffer, done |-> FALSE, threw |-> FALSE, messages |-> msgs,
             folded |-> folded]
     ELSE
       LET line == Trim(SliceTo(buffer, lineBreakIdx))
           rest == SliceFrom(buffer, lineBreakIdx + 1)
       IN IF line = <<>> THEN ProcessLines(rest, msgs, assistantIndex, folded)
          ELSE IF StartsWith(line, DataPrefix)
            THEN LET jsonStr == StripDataPrefix(line)
                 IN IF IsDone(jsonStr)
                      THEN IF BreakAtDone
                             THEN [buffer |-> rest, done |-> TRUE, threw |-> FALSE,
                                   messages |-> msgs, folded |-> folded]
                             ELSE [ProcessLines(rest, msgs, assistantIndex, folded)
                                     EXCEPT !.done = TRUE]
                    ELSE LET parsed == JSONParse(jsonStr)
                             delta == parsed.content
                         IN IF ~parsed.ok /\ OnParseError # "skip"
                              THEN [buffer |-> rest, done |-> FALSE, threw |-> TRUE,
                                    messages |-> msgs, folded |-> folded]
                            ELSE IF parsed.ok /\ IsDelta(delta)
                              THEN ProcessLines(rest,
                                     FoldDelta(msgs, assistantIndex, delta.text),
                                     assistantIndex, folded + 1)
                              ELSE ProcessLines(rest, msgs, assistantIndex, folded)
          ELSE ProcessLines(rest, msgs, assistantIndex, folded)

\* ------------------------------------------------------------- streams
RichFrames ==
  {DeltaFrame(<<"a">>), DeltaFrame(<<"u", NL>>), Frame("done"), Frame("doneTight"),
   Frame("malformed"), Frame("nocontent"), Frame("nonstring"), Frame("emptystr"),
   Frame("blank"), Frame("comment"), Frame("bare")}
PlainFrames == {DeltaFrame(<<"a">>), Frame("done")}

FrameLists(F) == UNION {[1..n -> F] : n \in 0..MaxFrames}

\* a response stream: its frames, and whether its last line ends in a newline
Stream(fs, t) == [frames |-> fs, terminated |-> t]
RichStreams ==
  {Stream(fs, t) : fs \in FrameLists(RichFrames), t \in BOOLEAN} \ {Stream(<<>>, FALSE)}
PlainStreams == {Stream(fs, TRUE) : fs \in FrameLists(PlainFrames)}

\* streams whose deltas hold a two-byte character
WideFrames == {DeltaFrame(<<"u">>), Frame("done")}
WideStreams == {Stream(fs, TRUE) : fs \in FrameLists(WideFrames)}

\* ------------------------------------------------------------- calls
NoStream == Stream(<<>>, TRUE)
NoFailure == Failure("", <<>>)

\* mutant: one TextDecoder serves every invocation and keeps its pending bytes
SharedDecoderCarry == last.carry

\* new TextDecoder('utf-8') of each invocation: no pending bytes
InitialCarry == <<>>

\* let buffer = ''
InitialBuffer == <<>>

\* the locals of an invocation of sendMessage that has issued its request;
\* started and afterLeftover are history: the length of the Conversation when
\* it was invoked, and whether the invocation that returned before it left
\* text in its buffer or bytes in its decoder
NewCall(withUser, assistantIndex, key) ==
  [pc |-> "fetch", assistantIndex |-> assistantIndex,
   request |-> [authorization |-> <<"Bearer ", key>>,
                messages |-> RequestMessages(withUser), stream |-> TRUE],
   status |-> "", errText |-> <<>>, data |-> NoContent,
   body |-> <<>>, carry |-> InitialCarry, buffer |-> InitialBuffer,
   stream |-> NoStream, folded |-> 0, split |-> FALSE,
   started |-> Len(withUser) - 1,
   afterLeftover |-> last.buffered \/ last.carry # <<>>]

RemoveAt(s, i) == SubSeq(s, 1, i - 1) \o SubSeq(s, i + 1, Len(s))

\* how an invocation went: the exit taken, the event that led to it and the
\* failure caught, the slot and
\* the stream of the call, whether a chunk ended inside the data: prefix,
\* whether bytes were left unread or text left in the buffer, the
\* Conversation just before the exit, the status and body text of a response
\* that was not ok, the content of a fallback payload, and the length of the
\* Conversation when the call was invoked
NoLast ==
  [exit |-> "none", cause |-> "", slot |-> 0, folded |-> 0, split |-> FALSE,
   unread |-> FALSE, buffered |-> FALSE, stream |-> NoStream, failure |-> NoFailure,
   before |-> <<>>, status |-> "", errText |-> <<>>, data |-> NoContent,
   started |-> 0, carry |-> <<>>, afterLeftover |-> FALSE]

Summary(c, exit, cause, e, before) ==
  [exit |-> exit, cause |-> cause, slot |-> c.assistantIndex, folded |-> c.folded,
   split |-> c.split, unread |-> c.body # <<>>, buffered |-> c.buffer # <<>>,
   stream |-> c.stream, failure |-> e, before |-> before, status |-> c.status,
   errText |-> c.errText, data |-> c.data, started |-> c.started,
   carry |-> c.carry, afterLeftover |-> c.afterLeftover]

\* mutant: no finally block
BusyLeftSet == TRUE

\* setBusy(false)
FinallyBusy == FALSE

\* the finally block, after the updates of the path taken: the call returns
Return(i, c, msgs, exit, cause, e) ==
  /\ messages' = msgs
  /\ busy' = FinallyBusy
  /\ calls' = RemoveAt(calls, i)
  /\ last' = Summary(c, exit, cause, e, messages)
  /\ UNCHANGED <<apiKey, storage, input, invoked, requests>>

\* the catch block, then finally
Throw(i, c, msgs, cause, e) ==
  Return(i, c, CatchUpdate(msgs, c.assistantIndex, e), "error", cause, e)

\* ------------------------------------------------------------- the UI
\* mutant: the textarea stays enabled during a send
TextareaIgnoresBusy == apiKey = ""

\* disabled={!apiKey || busy}
TextareaDisabled == apiKey = "" \/ busy
\* disabled={!apiKey || busy || !input.trim()}
ButtonDisabled == apiKey = "" \/ busy \/ Trim(input) = <<>>

\* onChange of the textarea
TypeInput ==
  /\ ~TextareaDisabled
  /\ \E v \in Inputs : input' = v
  /\ UNCHANGED <<apiKey, storage, messages, busy, calls, invoked, requests, last>>

\* handleSaveKey, from the key field or the clear button
handleSaveKey ==
  /\ \E value \in Keys : apiKey' = value /\ storage' = value
  /\ UNCHANGED <<messages, input, busy, calls, invoked, requests, last>>

\* sendMessage up to its first await
sendMessage ==
  LET text == Trim(input)
  IN /\ invoked < MaxSends
     /\ invoked' = invoked + 1
     /\ IF Rejects(text, apiKey)
          THEN /\ last' = [NoLast EXCEPT !.exit = "rejected", !.before = messages]
               /\ UNCHANGED <<apiKey, storage, messages, input, busy, calls, requests>>
          ELSE LET withUser == WithUser(messages, text)
                   assistantIndex == AssistantIndex(withUser)
               IN /\ busy' = TRUE
                  /\ input' = <<>>
                  /\ messages' = AddPlaceholder(withUser)
                  /\ calls' = Append(calls, NewCall(withUser, assistantIndex, apiKey))
                  /\ requests' = requests + 1
                  /\ UNCHANGED <<apiKey, storage, last>>

\* onClick of the send button
ClickSend == ~ButtonDisabled /\ sendMessage

\* handleKeyDown with Enter and no Shift
handleKeyDown == ~TextareaDisabled /\ sendMessage

\* ------------------------------------------------------------- the response
Update(i, c) ==
  /\ calls' = [calls EXCEPT ![i] = c]
  /\ UNCHANGED <<apiKey, storage, messages, input, busy, invoked, requests, last>>

\* fetch rejects
FetchReject ==
  \E i \in DOMAIN calls :
    /\ calls[i].pc = "fetch"
    /\ Throw(i, calls[i], messages, "fetch", NetworkFailure)

\* fetch resolves with !resp.ok: await resp.text()
FetchNotOk ==
  \E i \in DOMAIN calls, st \in HttpStatuses :
    /\ calls[i].pc = "fetch"
    /\ Update(i, [calls[i] EXCEPT !.pc = "text", !.status = st])

\* resp.text() resolves: throw new Error(...)
TextResolve ==
  \E i \in DOMAIN calls, errText \in ErrorBodies :
    /\ calls[i].pc = "text"
    /\ Throw(i, [calls[i] EXCEPT !.errText = errText], messages, "http",
             HttpError(calls[i].status, errText))

\* resp.text() rejects
TextReject ==
  \E i \in DOMAIN calls :
    /\ calls[i].pc = "text"
    /\ Throw(i, calls[i], messages, "text", ReadFailure)

\* fetch resolves with resp.ok and no body: await resp.json()
FetchNoBody ==
  \E i \in DOMAIN calls :
    /\ calls[i].pc = "fetch"
    /\ Update(i, [calls[i] EXCEPT !.pc = "json"])

\* resp.json() resolves: the fallback write and return
JsonResolve ==
  \E i \in DOMAIN calls, c \in FallbackContents :
    /\ calls[i].pc = "json"
    /\ Return(i, [calls[i] EXCEPT !.data = c],
              SetContent(messages, calls[i].assistantIndex, FallbackText(c)),
              "fallback", "json", NoFailure)

\* resp.json() rejects
JsonReject ==
  \E i \in DOMAIN calls :
    /\ calls[i].pc = "json"
    /\ Throw(i, calls[i], messages, "json", SyntaxFailure)

\* fetch resolves with resp.ok and a body: the first reader.read()
FetchStream(S) ==
  \E i \in DOMAIN calls, st \in S :
    /\ calls[i].pc = "fetch"
    /\ Update(i, [calls[i] EXCEPT !.pc = "read", !.stream = st,
                    !.body = UTF8Encode(StreamText(st.frames, st.terminated))])

\* one pass of the outer loop after reader.read() resolved with value and
\* rdDone: lines 90-126, then the loop test and, when done, the return
LoopPass(i, c, value, rdDone) ==
  LET dec == IF value = <<>> THEN [text |-> <<>>, carry |-> c.carry]
                             ELSE Decode(c.carry, value)
      r == ProcessLines(c.buffer \o dec.text, messages, c.assistantIndex, c.folded)
      done == rdDone \/ r.done
      c2 == [c EXCEPT !.carry = dec.carry, !.buffer = r.buffer, !.folded = r.folded,
                      !.split = c.split \/ IsProperPrefix(r.buffer, DataPrefix),
                      !.body = SubSeq(c.body, Len(value) + 1, Len(c.body))]
  IN IF r.threw
       THEN Throw(i, c2, r.messages, "parse", SyntaxFailure)
     ELSE IF done
       THEN Return(i, c2, r.messages, IF r.done THEN "done" ELSE "eof",
                   IF rdDone THEN "end" ELSE "chunk", NoFailure)
       ELSE /\ messages' = r.messages
            /\ calls' = [calls EXCEPT ![i] = c2]
            /\ UNCHANGED <<apiKey, storage, input, busy, invoked, requests, last>>

ChunkSizes(body) ==
  {n \in 1..Len(body) : n <= MaxChunk \/ n = Len(body)}

\* reader.read() resolves with a chunk
ReadChunk ==
  \E i \in DOMAIN calls :
    /\ calls[i].pc = "read"
    /\ \E n \in ChunkSizes(calls[i].body) :
         LoopPass(i, calls[i], SubSeq(calls[i].body, 1, n), FALSE)

\* mutant: the end of the stream closes the line left in the buffer
ReadEndFlushes ==
  \E i \in DOMAIN calls :
    /\ calls[i].pc = "read"
    /\ calls[i].body = <<>>
    /\ LoopPass(i, [calls[i] EXCEPT !.buffer = @ \o <<NL>>], <<>>, TRUE)

\* mutant: the end of the stream without [DONE] is a failure
ReadEndFails ==
  \E i \in DOMAIN calls :
    /\ calls[i].pc = "read"
    /\ calls[i].body = <<>>
    /\ Throw(i, calls[i], messages, "end", Failure("Error", <<"incomplete stream">>))

\* reader.read() resolves with done: the source has no more bytes
ReadEnd ==
  \E i \in DOMAIN calls :
    /\ calls[i].pc = "read"
    /\ calls[i].body = <<>>
    /\ LoopPass(i, calls[i], <<>>, TRUE)

\* reader.read() rejects
ReadReject ==
  \E i \in DOMAIN calls :
    /\ calls[i].pc = "read"
    /\ Throw(i, calls[i], messages, "read", ReadFailure)

\* ------------------------------------------------------------- specifications
Init ==
  /\ storage \in Keys
  /\ apiKey = storage
  /\ messages = <<Msg("system", DEFAULT_SYSTEM_PROMPT)>>
  /\ input = <<>>
  /\ busy = FALSE
  /\ calls = <<>>
  /\ invoked = 0
  /\ requests = 0
  /\ last = NoLast

Response ==
  \/ FetchReject \/ FetchNotOk \/ TextResolve \/ TextReject
  \/ FetchNoBody \/ JsonResolve \/ JsonReject
  \/ ReadReject \/ ReadEnd \/ ReadChunk

\* sessions of the component driven through its UI
Next ==
  \/ TypeInput \/ handleSaveKey \/ ClickSend \/ handleKeyDown
  \/ FetchStream(PlainStreams) \/ Response

Spec == Init /\ [][Next]_vars

\* the same sessions when the transport answers: the request and every read
\* pending eventually resolve or reject
SpecLive ==
  Init /\ [][Next]_vars /\ WF_vars(Response \/ FetchStream(PlainStreams))

\* the first request of a session, with every kind of frame in its stream
NextDecode ==
  \/ TypeInput \/ handleSaveKey
  \/ (requests = 0 /\ ClickSend) \/ (requests = 0 /\ handleKeyDown)
  \/ FetchStream(RichStreams) \/ Response

SpecDecode == Init /\ [][NextDecode]_vars

\* sessions whose streams hold two-byte characters
NextWide ==
  \/ TypeInput \/ handleSaveKey \/ ClickSend \/ handleKeyDown
  \/ FetchStream(WideStreams) \/ Response

SpecWide == Init /\ [][NextWide]_vars

\* sessions in which sendMessage is also called directly, whatever the UI shows
DirectCall == Len(calls) < MaxCalls /\ sendMessage

NextApi == Next \/ DirectCall

SpecApi == Init /\ [][NextApi]_vars

\* ------------------------------------------------------------- claims
\* the content of the message at the slot of the invocation that returned last
SlotContent == messages[last.slot + 1].content

\* D1+D2+...+Dn: the texts of the delta frames written before the first [DONE]
RECURSIVE DeltaText(_)
DeltaText(frames) ==
  IF frames = <<>> \/ Head(frames).kind \in {"done", "doneTight"} THEN <<>>
  ELSE (IF Head(frames).kind = "delta" THEN Head(frames).text ELSE <<>>)
         \o DeltaText(Tail(frames))

Succeeded == last.exit \in {"done", "eof"}

\* a step in which an invocation of sendMessage returns
Returns == Len(calls') < Len(calls)

\* C1: when a send over a stream of newline-terminated frames succeeds, the
\* pending message holds D1+...+Dn, the deltas of the frames before [DONE] in
\* order, whatever chunks the transport cut the bytes into.
C1_ContentIsConcatenation ==
  (Succeeded /\ last.stream.terminated) => SlotContent = DeltaText(last.stream.frames)

\* two deltas, the second with a two-byte character and an escaped newline,
\* delivered with a chunk ending inside the data: prefix
C1_Witness ==
  /\ last.exit = "eof" /\ last.split /\ last.folded = 2
  /\ last.stream = Stream(<<DeltaFrame(<<"a">>), DeltaFrame(<<"u", NL>>)>>, TRUE)
  /\ SlotContent = <<"a", "u", NL>>

\* C2: after [DONE] was extracted nothing more is processed or read: the send
\* has returned (no read pending, busy clear), the pending message holds the
\* deltas before [DONE] only, and the return changed no other message; a
\* stream that holds a [DONE] frame never ends as a stream without one.
C2_DoneHalts ==
  /\ last.exit = "done" =>
       /\ calls = <<>> /\ ~busy
       /\ SlotContent = DeltaText(last.stream.frames)
       /\ Len(messages) = Len(last.before)
       /\ \A j \in DOMAIN messages : j # last.slot + 1 => messages[j] = last.before[j]
  /\ (last.exit = "eof" /\ last.stream.terminated) =>
       \A j \in DOMAIN last.stream.frames :
         last.stream.frames[j].kind \notin {"done", "doneTight"}

\* [DONE] first, a delta frame after it, bytes of the body never read
C2_Witness ==
  /\ last.exit = "done" /\ last.unread
  /\ last.stream = Stream(<<Frame("done"), DeltaFrame(<<"a">>)>>, TRUE)
  /\ SlotContent = <<>>

\* C3: the step in which a send fails (request, HTTP status, read) replaces
\* the content at the slot by the error label and the failure's message, and
\* changes nothing else of the Conversation, its length included.
C3_FailureOverwrites ==
  [][(Returns /\ last'.exit = "error") =>
       messages' = [messages EXCEPT
                      ![last'.slot + 1].content = ErrorLabel \o last'.failure.message]]_vars

\* a read failed after a delta had been folded
C3_Witness ==
  /\ last.exit = "error" /\ last.cause = "read" /\ last.folded >= 1
  /\ last.before[last.slot + 1].content # <<>>
  /\ SlotContent = ErrorLabel \o ReadFailure.message

\* C4: the busy flag is set exactly while a send is in flight: in every state
\* from the request to the return, and clear after every return.
C4_BusyWhileInFlight == busy = (calls # <<>>)

\* the second send of a session failed while reading, and the flag is clear
C4_Witness ==
  /\ requests = 2 /\ calls = <<>> /\ ~busy
  /\ last.exit = "error" /\ last.cause = "read"

\* C5: at most one send is in flight, and while one is the send triggers are
\* disabled.
C5_OneSendInFlight ==
  /\ Len(calls) <= 1
  /\ calls # <<>> => busy /\ TextareaDisabled /\ ButtonDisabled

\* a send in flight with a credential present: only busy disables the textarea
C5_Witness == Len(calls) = 1 /\ apiKey # "" /\ calls[1].pc = "read"

\* C6: an invocation with an input that is empty after trimming, or with an
\* empty credential, issues no request and changes no state.
C6_RejectedIsNoOp ==
  [][(invoked' = invoked + 1 /\ (Trim(input) = <<>> \/ apiKey = "")) =>
       /\ requests' = requests /\ calls' = calls
       /\ messages' = messages /\ input' = input /\ busy' = busy
       /\ apiKey' = apiKey /\ storage' = storage]_vars

\* rejected for the credential alone, the input being non-empty
C6_Witness ==
  /\ last.exit = "rejected" /\ apiKey = "" /\ Trim(input) # <<>>
  /\ requests = 0 /\ messages = <<Msg("system", DEFAULT_SYSTEM_PROMPT)>>

\* C7: the step that issues a request turns the Conversation C into
\* C ++ [user(trimmed input), assistant('')] and records the index of the new
\* assistant message, len(C)+1, as the slot; while the send is in flight the
\* slot does not change and is the index of that assistant message.
C7_SlotIsPlaceholder ==
  [][/\ requests' = requests + 1 =>
          /\ messages' = messages \o <<Msg("user", Trim(input)), Msg("assistant", <<>>)>>
          /\ calls'[Len(calls')].assistantIndex = Len(messages) + 1
     /\ (calls # <<>> /\ calls' # <<>> /\ requests' = requests) =>
          /\ calls'[1].assistantIndex = calls[1].assistantIndex
          /\ Len(messages') = calls'[1].assistantIndex + 1
          /\ messages'[calls'[1].assistantIndex + 1].role = "assistant"
          /\ messages'[calls'[1].assistantIndex] = messages[calls[1].assistantIndex]]_vars

\* the second send of a session, with a delta folded at its slot
C7_Witness ==
  /\ requests = 2 /\ Len(calls) = 1 /\ calls[1].folded >= 1
  /\ calls[1].assistantIndex = 4 /\ Len(messages) = 5
  /\ messages[5] = Msg("assistant", <<"a">>)

\* C8: the messages of the request of a send in flight are the Conversation
\* up to the placeholder: the system message, the earlier messages with their
\* final content, the new user message, and not the placeholder.
C8_RequestCarriesConversation ==
  \A i \in DOMAIN calls :
    /\ calls[i].request.messages = SubSeq(messages, 1, calls[i].assistantIndex)
    /\ calls[i].request.messages[1] = Msg("system", DEFAULT_SYSTEM_PROMPT)
    /\ calls[i].request.messages[calls[i].assistantIndex].role = "user"
    /\ calls[i].request.stream

\* the second request carries the first answer as it was streamed
C8_Witness ==
  /\ requests = 2 /\ Len(calls) = 1
  /\ Len(calls[1].request.messages) = 4
  /\ calls[1].request.messages[3] = Msg("assistant", <<"a", "a">>)

\* the decoding, by the loop of the source in one pass, of a whole stream
WholeDecode(st) ==
  ProcessLines(StreamText(st.frames, st.terminated), <<Msg("assistant", <<>>)>>, 0, 0)

WithoutMalformed(st) ==
  Stream(SelectSeq(st.frames, LAMBDA f : f.kind # "malformed"), st.terminated)

\* C9: a frame whose payload does not parse never makes the send fail, and a
\* send that succeeds ends as the same stream without its malformed frames
\* does: same content, same termination.
C9_MalformedSkipped ==
  /\ last.exit = "error" => last.cause # "parse"
  /\ (Succeeded /\ last.stream.terminated) =>
       /\ SlotContent = WholeDecode(WithoutMalformed(last.stream)).messages[1].content
       /\ (last.exit = "done") = WholeDecode(WithoutMalformed(last.stream)).done

\* a malformed frame before a delta frame: the delta was still folded
C9_Witness ==
  /\ last.exit = "eof"
  /\ last.stream = Stream(<<Frame("malformed"), DeltaFrame(<<"a">>)>>, TRUE)
  /\ SlotContent = <<"a">>

\* C10: when the reader reports the end of the stream the send returns as a
\* success: the pending message keeps the deltas folded and the busy flag is
\* clear.
C10_EndOfStreamSucceeds ==
  last.cause = "end" =>
    /\ last.exit = "eof" /\ last.failure = NoFailure
    /\ SlotContent = last.before[last.slot + 1].content
    /\ last.stream.terminated => SlotContent = DeltaText(last.stream.frames)
    /\ ~busy /\ calls = <<>>

\* a stream of one delta frame and no [DONE]
C10_Witness ==
  /\ last.cause = "end" /\ last.exit = "eof" /\ last.folded = 1
  /\ last.stream = Stream(<<DeltaFrame(<<"a">>)>>, TRUE)
  /\ SlotContent = <<"a">>

\* a send that ended with a response that was not ok
HttpFailed == last.exit = "error" /\ last.cause = "http"

\* C11 as stated: after an error status with body text B the pending message
\* holds exactly the error label followed by B.
C11_LabelThenBody == HttpFailed => SlotContent = ErrorLabel \o last.errText

\* C11 amended: after an error status S with body text B the pending message
\* holds the error label followed by "HTTP S: " and B.
C11_LabelThenStatusAndBody ==
  HttpFailed => SlotContent = ErrorLabel \o <<"HTTP ", last.status, ": ">> \o last.errText

\* status 429 with the body "rate limited"
C11_Witness ==
  /\ HttpFailed /\ last.status = "429" /\ last.errText = <<"rate limited">>
  /\ SlotContent = <<"Oshibka zaprosa: ", "HTTP ", "429", ": ", "rate limited">>

\* C12 as stated: after a send that ended with an error status the
\* Conversation is as long as before the send.
C12_LengthAsBeforeSend ==
  (HttpFailed /\ calls = <<>>) => Len(messages) = last.started

\* C12 amended: after a send that ended with an error status the Conversation
\* is as long as just before the failure was handled, two messages (the user
\* message and the placeholder) longer than before the send.
C12_LengthAsBeforeFailure ==
  (HttpFailed /\ calls = <<>>) =>
    /\ Len(messages) = Len(last.before)
    /\ Len(messages) = last.started + 2

\* the second send of a session ended with an error status
C12_Witness ==
  /\ HttpFailed /\ calls = <<>> /\ requests = 2
  /\ last.started = 3 /\ Len(messages) = 5

\* C13: after the fallback the pending message holds the content extracted,
\* or the placeholder text when the content is absent, null or empty; no
\* stream was read and the busy flag is clear.
C13_FallbackContentOrPlaceholder ==
  (last.exit = "fallback" /\ calls = <<>>) =>
    /\ SlotContent = IF last.data.has /\ last.data.text # <<>>
                       THEN last.data.text ELSE NoContentText
    /\ last.stream = NoStream /\ ~busy

\* C14: the Conversation is never empty and its first message is the initial
\* system message.
C14_SystemMessageFirst ==
  /\ Len(messages) >= 1
  /\ messages[1] = Msg("system", DEFAULT_SYSTEM_PROMPT)
  /\ \A j \in 2..Len(messages) : messages[j].role # "system"

\* two sends have returned, the second one with a failure
C14_Witness ==
  /\ requests = 2 /\ calls = <<>> /\ Len(messages) = 5
  /\ last.exit = "error" /\ messages[3].content # <<>>

\* C15: a decode run that ends normally folds the deltas, and ends the way
\* ([DONE] or end of stream), of an independent run of the loop over the same
\* stream from an empty buffer, whatever its chunks and whatever the run
\* before it left in its buffer and decoder.
C15_RunsAreIndependent ==
  Succeeded =>
    /\ SlotContent = WholeDecode(last.stream).messages[1].content
    /\ last.folded = WholeDecode(last.stream).folded
    /\ (last.exit = "done") = WholeDecode(last.stream).done

\* the second run of a session folded a delta and met [DONE], after a first
\* run that left text in its buffer or bytes in its decoder
C15_Witness ==
  /\ requests = 2 /\ calls = <<>> /\ last.exit = "done" /\ last.afterLeftover
  /\ last.stream = Stream(<<DeltaFrame(<<"u">>), Frame("done")>>, TRUE)
  /\ messages[5].content = <<"u">>

\* the stream without its frames of the kinds K
Without(st, K) ==
  Stream(SelectSeq(st.frames, LAMBDA f : f.kind \notin K), st.terminated)

\* the kinds of frame that parse and carry no delta text
ContentFree == {"nocontent", "nonstring", "emptystr"}

\* C16: a frame that parses and whose delta content is absent, empty or not
\* a string folds nothing and neither ends nor fails the stream: a send that
\* succeeds folds as many deltas, holds the same content and ends the same
\* way as a run over the stream without such frames.
C16_ContentFreeFramesFoldNothing ==
  /\ last.exit = "error" => last.cause # "parse"
  /\ (Succeeded /\ last.stream.terminated) =>
       /\ SlotContent = WholeDecode(Without(last.stream, ContentFree)).messages[1].content
       /\ last.folded = WholeDecode(Without(last.stream, ContentFree)).folded
       /\ (last.exit = "done") = WholeDecode(Without(last.stream, ContentFree)).done

\* a frame with an empty delta object, then a delta frame that was folded
C16_Witness ==
  /\ last.exit = "eof" /\ last.folded = 1
  /\ last.stream = Stream(<<Frame("nocontent"), DeltaFrame(<<"a">>)>>, TRUE)
  /\ SlotContent = <<"a">>

\* the kinds of line that are no data frame
NonData == {"blank", "comment", "bare"}

\* C17: empty lines and lines without the data: prefix are discarded: a send
\* that succeeds folds the deltas, and ends the way, of a run over the stream
\* without them; such a line holding [DONE] does not end the stream.
C17_NonDataLinesDiscarded ==
  (Succeeded /\ last.stream.terminated) =>
    /\ SlotContent = WholeDecode(Without(last.stream, NonData)).messages[1].content
    /\ last.folded = WholeDecode(Without(last.stream, NonData)).folded
    /\ (last.exit = "done") = WholeDecode(Without(last.stream, NonData)).done

\* a line that is [DONE] without the prefix, then a delta frame that was folded
C17_Witness ==
  /\ last.exit = "eof" /\ last.folded = 1
  /\ last.stream = Stream(<<Frame("bare"), DeltaFrame(<<"a">>)>>, TRUE)
  /\ SlotContent = <<"a">>

\* the frames before the last one
AllButLast(frames) == SubSeq(frames, 1, Len(frames) - 1)

HasDone(frames) ==
  \E j \in DOMAIN frames : frames[j].kind \in {"done", "doneTight"}

\* C20: the text left in the line buffer when the stream ends is never
\* processed: when the last line of the stream has no newline, a send that
\* succeeds holds the deltas of the lines before it only, and ends at a
\* [DONE] only when one of those lines carries it.
C20_LeftoverNeverProcessed ==
  (Succeeded /\ ~last.stream.terminated /\ last.stream.frames # <<>>) =>
    /\ SlotContent = DeltaText(AllButLast(last.stream.frames))
    /\ (last.exit = "done") = HasDone(AllButLast(last.stream.frames))

\* the stream ended with a whole [DONE] frame in the buffer and no newline
C20_Witness ==
  /\ last.exit = "eof" /\ last.cause = "end" /\ last.buffered
  /\ last.stream = Stream(<<DeltaFrame(<<"a">>), Frame("done")>>, FALSE)
  /\ SlotContent = <<"a">>

\* C19: once a send has appended its two messages, every later step taken
\* while it is in flight, its return included, changes nothing of the
\* Conversation but the content at its slot: the length, every role and
\* every other message stay as they are.
C19_OnlySlotContentChanges ==
  [][(calls # <<>> /\ requests' = requests) =>
       /\ Len(messages') = Len(messages)
       /\ \A j \in DOMAIN messages :
            /\ messages'[j].role = messages[j].role
            /\ j # calls[1].assistantIndex + 1 => messages'[j] = messages[j]]_vars

\* the second send folded a delta and then failed; the first exchange and
\* the new user message are as they were when it was issued
C19_Witness ==
  /\ requests = 2 /\ calls = <<>> /\ last.exit = "error" /\ last.folded >= 1
  /\ Len(messages) = 5 /\ last.slot = 4
  /\ messages[3] = Msg("assistant", <<"a">>)
  /\ messages[4].role = "user"
  /\ messages[5].role = "assistant" /\ messages[5].content # <<"a">>

\* C18: when the transport answers, every send that passed validation
\* returns with the busy flag clear; and the line loop runs until no newline
\* is left, so no send waits for a read with a whole line in its buffer.
C18_EverySendReturns ==
  /\ [](\A i \in DOMAIN calls : IndexOf(calls[i].buffer, NL) = -1)
  /\ (calls # <<>>) ~> (calls = <<>> /\ ~busy)

\* the second send of a session returned at [DONE] over a stream that the
\* transport had cut inside a line
C18_Witness ==
  /\ requests = 2 /\ calls = <<>> /\ ~busy
  /\ last.exit = "done" /\ last.split /\ last.folded >= 1

=============================================================================
